---------------------------- MODULE Spec2Model ----------------------------
(***************************************************************************)
(* Model of the Romulus terms service client (jujulib/terms.js), of the    *)
(* transport doubles its test-suite drives it with, and of the             *)
(* documentation linter (lint-yuidoc).                                     *)
(*                                                                         *)
(* JavaScript strings are sequences of one-character strings, so that      *)
(* concatenation, the trailing-slash regular expression, number formatting *)
(* and timestamp parsing are computed character by character.              *)
(***************************************************************************)
EXTENDS Integers, Sequences, FiniteSets, Bags, TLC

VARIABLES
    baseUrl,     \* the url argument the constructor was given (history)
    client,      \* the terms object: NoClient before construction, then [url, bakery]
    calls,       \* the showTerms calls made so far, in order: [name, revision]
    inflight,    \* requests the transport holds and has not completed yet
    requests,    \* every request handed to the transport, in order (history)
    delivered,   \* per call: what the transport answered, or NotDelivered (history)
    callbacks,   \* per call: the invocations of that call's callback, in order
    \* lint-yuidoc
    argv,                 \* the command line
    fs,                   \* the files read: [undocumented, sources]
    lpc,                  \* where main is: "idle", "start", "walk", "returned", "raised"
    main_undocumented,    \* main's undocumented: the (file, function) pairs listed
    pending,              \* the files of the walk not checked yet
    all_functions,        \* main's all_functions
    total_num_doc_lines,  \* main's total_num_doc_lines
    found_errors,         \* main's found_errors
    falsely_undoc,        \* every falsely_undoc_functions entry check_file returned (history)
    stdout,               \* the lines printed, as a bag
    main_status,          \* what main returned, or the exception that ended it
    \* check_file's loop over the functions of one file, taken alone
    scan                  \* [source, k, boundary, doc_lines, pc]

termsVars == <<baseUrl, client, calls, inflight, requests, delivered, callbacks>>

lintVars == <<argv, fs, lpc, main_undocumented, pending, all_functions,
              total_num_doc_lines, found_errors, falsely_undoc, stdout,
              main_status>>

scanVars == <<scan>>

vars == <<termsVars, lintVars, scanVars>>

\* The linter before it is started.
LintIdle ==
    /\ argv = <<>>
    /\ fs = <<>>
    /\ lpc = "idle"
    /\ main_undocumented = {}
    /\ pending = {}
    /\ all_functions = {}
    /\ total_num_doc_lines = 0
    /\ found_errors = FALSE
    /\ falsely_undoc = {}
    /\ stdout = <<>>
    /\ main_status = <<>>

\* No file is being scanned for documentation on its own.
ScanIdle ==
    scan = [source |-> <<>>, k |-> 0, boundary |-> 0, doc_lines |-> <<>>,
            pc |-> "idle"]

-----------------------------------------------------------------------------
(* Bounds *)

\* Number of showTerms calls issued on the client.
MaxCalls == 2

-----------------------------------------------------------------------------
(* JavaScript values *)

Null == [t |-> "null"]
Undefined == [t |-> "undefined"]
NaN == [t |-> "NaN"]
Num(n) == [t |-> "number", v |-> n]
Str(s) == [t |-> "string", v |-> s]
Obj(r) == [t |-> "object", v |-> r]

\* ToBoolean: 0, NaN, the empty string, null and undefined are falsy.
ToBoolean(x) ==
    CASE x.t = "number" -> x.v # 0
      [] x.t = "string" -> Len(x.v) > 0
      [] x.t = "object" -> TRUE
      [] OTHER -> FALSE

\* x === y: same type and same value, no coercion.
StrictEquals(x, y) == x.t = y.t /\ x = y

Digits == <<"0", "1", "2", "3", "4", "5", "6", "7", "8", "9">>

\* Number::toString for a non-negative integer: its decimal digits.
RECURSIVE NumberToString(_)
NumberToString(n) ==
    IF n < 10 THEN <<Digits[n + 1]>>
    ELSE NumberToString(n \div 10) \o <<Digits[(n % 10) + 1]>>

\* ToString of a value, as applied by string concatenation ('?revision=' + revision).
ToStringJS(x) ==
    CASE x.t = "number" -> NumberToString(x.v)
      [] x.t = "string" -> x.v
      [] x.t = "null" -> <<"n", "u", "l", "l">>
      [] x.t = "undefined" -> <<"u", "n", "d", "e", "f", "i", "n", "e", "d">>
      [] x.t = "NaN" -> <<"N", "a", "N">>

-----------------------------------------------------------------------------
(* Date.parse and new Date *)

DigitValue(c) == CHOOSE d \in 0..9 : Digits[d + 1] = c
IsDigit(c) == \E d \in 0..9 : Digits[d + 1] = c

\* The value of the decimal digits s[from..to].
RECURSIVE DigitsValue(_, _, _)
DigitsValue(s, from, to) ==
    IF to < from THEN 0
    ELSE DigitsValue(s, from, to - 1) * 10 + DigitValue(s[to])

IsLeapYear(y) == (y % 4 = 0 /\ y % 100 # 0) \/ y % 400 = 0

DaysInMonth(y, m) ==
    CASE m \in {4, 6, 9, 11} -> 30
      [] m = 2 -> IF IsLeapYear(y) THEN 29 ELSE 28
      [] OTHER -> 31

\* Days from 1970-01-01 to the civil date y-m-d (proleptic Gregorian).
DaysFromCivil(y, m, d) ==
    LET yy == IF m <= 2 THEN y - 1 ELSE y
        era == yy \div 400
        yoe == yy - era * 400
        mp == IF m > 2 THEN m - 3 ELSE m + 9
        doy == (153 * mp + 2) \div 5 + d - 1
        doe == yoe * 365 + yoe \div 4 - yoe \div 100 + doy
    IN era * 146097 + doe - 719468

\* s has the shape dddd-dd-ddTdd:dd:ddZ.
IsIsoShape(s) ==
    /\ Len(s) = 20
    /\ \A i \in {1, 2, 3, 4, 6, 7, 9, 10, 12, 13, 15, 16, 18, 19} : IsDigit(s[i])
    /\ s[5] = "-" /\ s[8] = "-" /\ s[11] = "T"
    /\ s[14] = ":" /\ s[17] = ":" /\ s[20] = "Z"

\* Date.parse of a string: the time value of a UTC date-time in the
\* ECMAScript date-time format YYYY-MM-DDTHH:mm:ssZ, NaN for a string that is
\* no date.  A time value is kept as whole seconds and a millisecond
\* remainder, [sec, ms] standing for sec * 1000 + ms milliseconds, because
\* the millisecond count of a present-day date exceeds 32 bits.
DateParse(s) ==
    IF ~IsIsoShape(s) THEN NaN
    ELSE LET y == DigitsValue(s, 1, 4)
             mo == DigitsValue(s, 6, 7)
             d == DigitsValue(s, 9, 10)
             h == DigitsValue(s, 12, 13)
             mi == DigitsValue(s, 15, 16)
             se == DigitsValue(s, 18, 19)
         IN IF /\ mo \in 1..12
               /\ d >= 1 /\ d <= DaysInMonth(y, mo)
               /\ (h < 24 \/ (h = 24 /\ mi = 0 /\ se = 0))
               /\ mi < 60 /\ se < 60
            THEN [t |-> "time",
                  sec |-> DaysFromCivil(y, mo, d) * 86400 + h * 3600 + mi * 60 + se,
                  ms |-> 0]
            ELSE NaN

\* new Date(milliseconds): a Date object holding that time value; an
\* Invalid Date (time value NaN) when milliseconds is NaN.
NewDate(milliseconds) == [t |-> "Date", time |-> milliseconds]

-----------------------------------------------------------------------------
(* String literals *)

S_slash == <<"/">>
S_terms == <<"/", "t", "e", "r", "m", "s", "/">>
S_revision == <<"?", "r", "e", "v", "i", "s", "i", "o", "n", "=">>
S_host == <<"h", "t", "t", "p", ":", "/", "/", "1", ".", "2", ".", "3", ".", "4">>
S_canonical == <<"c", "a", "n", "o", "n", "i", "c", "a", "l">>
S_other == <<"i", "s", "v">>
S_title == <<"c", "a", "n", "o", "n", "i", "c", "a", "l", " ", "t", "e", "r", "m", "s">>
S_recent == <<"r", "e", "c", "e", "n", "t">>
S_content == <<"T", "e", "r", "m", "s">>
S_created == <<"2", "0", "1", "6", "-", "0", "6", "-", "0", "9", "T",
               "2", "2", ":", "0", "7", ":", "2", "4", "Z">>
S_leapday == <<"2", "0", "0", "0", "-", "0", "2", "-", "2", "9", "T",
               "0", "0", ":", "0", "0", ":", "0", "1", "Z">>
S_nodate == <<"s", "o", "o", "n">>
S_badwolf == <<"b", "a", "d", " ", "w", "o", "l", "f">>
S_denied == <<"d", "e", "n", "i", "e", "d">>

-----------------------------------------------------------------------------
(* The terms client: constructor *)

termsAPIVersion == <<"v", "1">>

\* Where the regular expression /\/?$/ matches when tried at position i of s
\* (1-based, Len(s)+1 being the end): the length of the match, or -1.  The
\* optional slash is greedy: it is taken when present, and the match then
\* needs the end of input right after it; without a slash the empty match
\* needs the end of input at i.
SlashAtEndMatch(s, i) ==
    IF i <= Len(s) /\ s[i] = "/" /\ i = Len(s) THEN 1
    ELSE IF i = Len(s) + 1 THEN 0
    ELSE -1

\* url.replace(/\/?$/, '/'): the leftmost match is replaced by '/'.
ReplaceSlashAtEnd(s) ==
    LET i == CHOOSE k \in 1..(Len(s) + 1) :
                 /\ SlashAtEndMatch(s, k) >= 0
                 /\ \A j \in 1..(k - 1) : SlashAtEndMatch(s, j) < 0
        n == SlashAtEndMatch(s, i)
    IN SubSeq(s, 1, i - 1) \o S_slash \o SubSeq(s, i + n, Len(s))

\* A constructor that appends the separator without looking at the url.
termsAppendsSlash(url, bakery) ==
    [url |-> url \o S_slash \o termsAPIVersion, bakery |-> bakery]

\* function terms(url, bakery): the object the constructor initialises.
terms(url, bakery) ==
    [url |-> ReplaceSlashAtEnd(url) \o termsAPIVersion, bakery |-> bakery]

-----------------------------------------------------------------------------
(* The terms client: showTerms and its response handler *)

\* The effects of one run of a function: the callback invocations it makes,
\* in order, and the requests it hands to jujulib._makeRequest, in order.
Effects(invocations, reqs) == [invocations |-> invocations, requests |-> reqs]

Invocation(callback, error, result) ==
    [callback |-> callback, error |-> error, result |-> result]

\* A handler that returns on an error without telling the callback.
handlerSwallowsError(env, error, response) ==
    IF error # Null
    THEN Effects(<<>>, <<>>)
    ELSE Effects(<<Invocation(env.callback, Null, Null)>>, <<>>)

\* A handler that reads the last element of the response, not the first.
handlerTakesLast(env, error, response) ==
    IF error # Null
    THEN Effects(<<Invocation(env.callback, error, Null)>>, <<>>)
    ELSE IF Len(response) = 0
    THEN Effects(<<Invocation(env.callback, Null, Null)>>, <<>>)
    ELSE LET termsData == response[Len(response)]
             milliseconds == DateParse(termsData["created-on"])
         IN Effects(<<Invocation(env.callback, Null,
                                 Obj([name |-> termsData.name,
                                      title |-> termsData.title,
                                      revision |-> termsData.revision,
                                      content |-> termsData.content,
                                      createdAt |-> NewDate(milliseconds)]))>>,
                    <<>>)

\* A handler without the empty-response branch: it builds a record of
\* undefined fields from the missing first element.
handlerEmptyRecord(env, error, response) ==
    IF error # Null
    THEN Effects(<<Invocation(env.callback, error, Null)>>, <<>>)
    ELSE Effects(<<Invocation(env.callback, Null,
                              Obj([name |-> Undefined, title |-> Undefined,
                                   revision |-> Undefined, content |-> Undefined,
                                   createdAt |-> NewDate(NaN)]))>>,
                 <<>>)

\* A handler that passes the error in the result position.
handlerErrorAsResult(env, error, response) ==
    IF error # Null
    THEN Effects(<<Invocation(env.callback, Null, error)>>, <<>>)
    ELSE Effects(<<Invocation(env.callback, Null, Null)>>, <<>>)

\* A handler that answers an error by making the request again.
handlerRetries(env, error, response) ==
    IF error # Null
    THEN Effects(<<>>, <<[bakery |-> env.bakery, path |-> env.url,
                          method |-> "GET", params |-> Null, callback |-> env]>>)
    ELSE Effects(<<Invocation(env.callback, Null, Null)>>, <<>>)

\* var handler = function(error, response) {...}, run in the closure env of
\* the showTerms call that created it (env.callback is that call's callback).
handler(env, error, response) ==
    IF error # Null
    THEN Effects(<<Invocation(env.callback, error, Null)>>, <<>>)
    ELSE IF Len(response) = 0
    THEN Effects(<<Invocation(env.callback, Null, Null)>>, <<>>)
    ELSE LET termsData == response[1]
             milliseconds == DateParse(termsData["created-on"])
         IN Effects(<<Invocation(env.callback, Null,
                                 Obj([name |-> termsData.name,
                                      title |-> termsData.title,
                                      revision |-> termsData.revision,
                                      content |-> termsData.content,
                                      createdAt |-> NewDate(milliseconds)]))>>,
                    <<>>)

\* showTerms with the test "if (revision)": revision 0 counts as absent.
showTermsTruthyOnly(self, name, revision, callback) ==
    LET url0 == self.url \o S_terms \o name
        url == IF ToBoolean(revision)
               THEN url0 \o S_revision \o ToStringJS(revision)
               ELSE url0
    IN [self |-> self,
        call |-> [bakery |-> self.bakery, path |-> url, method |-> "GET",
                  params |-> Null,
                  callback |-> [callback |-> callback, url |-> url,
                                bakery |-> self.bakery]]]

\* showTerms with a handler created once and kept: every call's handler
\* reports to the callback of the first call.
showTermsCachedHandler(self, name, revision, callback) ==
    LET url0 == self.url \o S_terms \o name
        url == IF StrictEquals(revision, Num(0)) \/ ToBoolean(revision)
               THEN url0 \o S_revision \o ToStringJS(revision)
               ELSE url0
    IN [self |-> self,
        call |-> [bakery |-> self.bakery, path |-> url, method |-> "GET",
                  params |-> Null,
                  callback |-> [callback |-> 1, url |-> url,
                                bakery |-> self.bakery]]]

\* showTerms that builds the path in this.url instead of a local variable.
showTermsMutatesUrl(self, name, revision, callback) ==
    LET url0 == self.url \o S_terms \o name
        url == IF StrictEquals(revision, Num(0)) \/ ToBoolean(revision)
               THEN url0 \o S_revision \o ToStringJS(revision)
               ELSE url0
    IN [self |-> [self EXCEPT !.url = url],
        call |-> [bakery |-> self.bakery, path |-> url, method |-> "GET",
                  params |-> Null,
                  callback |-> [callback |-> callback, url |-> url,
                                bakery |-> self.bakery]]]

\* showTerms: function(name, revision, callback), run on the client self.
\* It yields the client as the call leaves it and the arguments of the one
\* jujulib._makeRequest call it returns.
showTerms(self, name, revision, callback) ==
    LET url0 == self.url \o S_terms \o name
        url == IF StrictEquals(revision, Num(0)) \/ ToBoolean(revision)
               THEN url0 \o S_revision \o ToStringJS(revision)
               ELSE url0
    IN [self |-> self,
        call |-> [bakery |-> self.bakery, path |-> url, method |-> "GET",
                  params |-> Null,
                  callback |-> [callback |-> callback, url |-> url,
                                bakery |-> self.bakery]]]

-----------------------------------------------------------------------------
(* jujulib._makeRequest and the transport *)

\* jujulib._makeRequest(bakery, path, method, params, callback): hands one
\* request for path to the bakery, with a success and a failure continuation
\* that both lead to callback.
makeRequest(bakery, path, method, params, callback) ==
    [bakery |-> bakery, method |-> method, path |-> path, handler |-> callback]

\* The success continuation: callback(null, <the decoded response>).  The
\* response text is held as the JSON document it spells.
makeRequestSuccess(callback, xhr) ==
    handler(callback, Null, xhr.target.responseText)

\* The failure continuation: callback(<the payload's Message>, null).
makeRequestFailure(callback, xhr) ==
    handler(callback, Str(xhr.target.responseText.Message), Null)

\* makeXHRRequest(obj) of the test-suite: the object a continuation receives.
makeXHRRequest(obj) == [target |-> [responseText |-> obj]]

-----------------------------------------------------------------------------
(* Inputs *)

Bakery == "bakery"

BaseUrls == {S_host, S_host \o S_slash, S_host \o S_slash \o S_slash}

\* The (name, revision) arguments of the showTerms calls: revisions that are
\* null, absent, numbers (0 among them) and a numeric string.
Arguments ==
    {<<S_canonical, Null>>, <<S_canonical, Num(42)>>, <<S_canonical, Num(0)>>,
     <<S_other, Undefined>>, <<S_other, Str(<<"0">>)>>}

TermsDoc(name, title, revision, createdOn, content) ==
    [name |-> name, title |-> title, revision |-> revision, content |-> content]
        @@ ("created-on" :> createdOn)

Doc42 == TermsDoc(S_canonical, S_title, 42, S_created, S_content)
Doc47 == TermsDoc(S_canonical, S_recent, 47, S_leapday, S_content)
DocBad == TermsDoc(S_other, <<>>, 0, S_nodate, <<>>)

\* The arrays a successful response decodes to.
Responses == {<<>>, <<Doc42>>, <<Doc42, DocBad>>, <<DocBad, Doc47>>}

\* The payloads a failed response decodes to.
Failures == {[Message |-> S_badwolf], [Message |-> S_denied]}

-----------------------------------------------------------------------------
(* State machine of the client and its transport *)

NoClient == [t |-> "none"]
NotDelivered == [kind |-> "none"]

TermsInit ==
    /\ baseUrl = <<>>
    /\ client = NoClient
    /\ calls = <<>>
    /\ inflight = {}
    /\ requests = <<>>
    /\ delivered = [i \in 1..MaxCalls |-> NotDelivered]
    /\ callbacks = [i \in 1..MaxCalls |-> <<>>]

\* new jujulib.terms(url, bakery)
New(url) ==
    /\ client = NoClient
    /\ client' = terms(url, Bakery)
    /\ baseUrl' = url
    /\ UNCHANGED <<calls, inflight, requests, delivered, callbacks>>
    /\ UNCHANGED lintVars
    /\ UNCHANGED scanVars

\* The transport takes the requests reqs (made on behalf of call id) after
\* the n requests it was handed before.
RECURSIVE Taken(_, _, _)
Taken(reqs, id, n) ==
    IF reqs = <<>> THEN {}
    ELSE {[call |-> id, n |-> n + 1, path |-> Head(reqs).path,
           method |-> Head(reqs).method, handler |-> Head(reqs).handler]}
         \cup Taken(Tail(reqs), id, n + 1)

Logged(reqs, id) ==
    [i \in 1..Len(reqs) |->
        [call |-> id, method |-> reqs[i].method, path |-> reqs[i].path]]

\* client.showTerms(name, revision, callback): the call with the next
\* callback; the request it makes goes to the transport.
ShowTerms(name, revision) ==
    /\ client # NoClient
    /\ Len(calls) < MaxCalls
    /\ LET id == Len(calls) + 1
           r == showTerms(client, name, revision, id)
           sent == <<makeRequest(r.call.bakery, r.call.path, r.call.method,
                                 r.call.params, r.call.callback)>>
       IN /\ client' = r.self
          /\ calls' = Append(calls, [name |-> name, revision |-> revision])
          /\ inflight' = inflight \cup Taken(sent, id, Len(requests))
          /\ requests' = requests \o Logged(sent, id)
    /\ UNCHANGED <<baseUrl, delivered, callbacks>>
    /\ UNCHANGED lintVars
    /\ UNCHANGED scanVars

\* The transport completes req with outcome, running the continuation whose
\* effects are eff.
Complete(req, outcome, eff) ==
    LET sent == [i \in 1..Len(eff.requests) |->
                    makeRequest(eff.requests[i].bakery, eff.requests[i].path,
                                eff.requests[i].method, eff.requests[i].params,
                                eff.requests[i].callback)]
    IN /\ delivered' = [delivered EXCEPT ![req.call] = outcome]
       /\ callbacks' = [i \in DOMAIN callbacks |->
                           callbacks[i] \o
                           SelectSeq(eff.invocations, LAMBDA v : v.callback = i)]
       /\ inflight' = (inflight \ {req}) \cup Taken(sent, req.call, Len(requests))
       /\ requests' = requests \o Logged(sent, req.call)
       /\ UNCHANGED <<baseUrl, client, calls>>
       /\ UNCHANGED lintVars
       /\ UNCHANGED scanVars

\* sendGetRequest ends in success(xhr).
TransportSuccess(req, body) ==
    /\ req \in inflight
    /\ Complete(req, [kind |-> "success", body |-> body],
                makeRequestSuccess(req.handler, makeXHRRequest(body)))

\* sendGetRequest ends in failure(xhr).
TransportFailure(req, payload) ==
    /\ req \in inflight
    /\ Complete(req, [kind |-> "failure", body |-> payload],
                makeRequestFailure(req.handler, makeXHRRequest(payload)))

TermsNext ==
    \/ \E url \in BaseUrls : New(url)
    \/ \E args \in Arguments : ShowTerms(args[1], args[2])
    \/ \E req \in inflight, body \in Responses : TransportSuccess(req, body)
    \/ \E req \in inflight, payload \in Failures : TransportFailure(req, payload)

\* The terms client runs; the linter is not started.
Init == TermsInit /\ LintIdle /\ ScanIdle

Next == TermsNext

Spec == Init /\ [][Next]_vars

-----------------------------------------------------------------------------
(* Properties of the terms client *)

S_url == S_host \o S_slash \o termsAPIVersion
S_path == S_url \o S_terms \o S_canonical

Completed(id) == delivered[id] # NotDelivered
Succeeded(id) == delivered[id].kind = "success"
Failed(id) == delivered[id].kind = "failure"
Found(id) == Succeeded(id) /\ Len(delivered[id].body) > 0
NotFound(id) == Succeeded(id) /\ Len(delivered[id].body) = 0

RequestsOf(id) == {i \in 1..Len(requests) : requests[i].call = id}

\* The record the callback is to receive for the term document doc.
RecordOf(doc) ==
    [name |-> doc.name, title |-> doc.title, revision |-> doc.revision,
     content |-> doc.content,
     createdAt |-> NewDate(DateParse(doc["created-on"]))]

\* The invocation call id's callback is to receive for the outcome d.
ExpectedInvocation(id, d) ==
    IF d.kind = "failure" THEN Invocation(id, Str(d.body.Message), Null)
    ELSE IF Len(d.body) = 0 THEN Invocation(id, Null, Null)
    ELSE Invocation(id, Null, Obj(RecordOf(d.body[1])))

IsNumericString(x) ==
    x.t = "string" /\ Len(x.v) > 0 /\ \A i \in 1..Len(x.v) : IsDigit(x.v[i])

\* C1: for every showTerms call, the callback has been invoked exactly once as
\* soon as the transport has completed the call's request, with whatever
\* outcome (an array, an empty array, a failure), and not at all before: never
\* zero times, never twice, never on both the success and the failure path.
C1_CallbackExactlyOnce ==
    \A id \in 1..MaxCalls :
        /\ Len(callbacks[id]) = IF Completed(id) THEN 1 ELSE 0
        /\ Cardinality({k \in 1..Len(callbacks[id]) : callbacks[id][k].error = Null})
           + Cardinality({k \in 1..Len(callbacks[id]) : callbacks[id][k].error # Null})
           = IF Completed(id) THEN 1 ELSE 0

C1_Witness ==
    \E i, j \in 1..MaxCalls :
        /\ Failed(i) /\ Len(callbacks[i]) = 1
        /\ NotFound(j) /\ Len(callbacks[j]) = 1

\* C2: the path of the request a showTerms call issues is
\* <client url>/terms/<name>, followed by ?revision=<revision> when the
\* revision is a non-negative integer (0 included) or a numeric string, and by
\* nothing when the revision is null or absent.
C2_RequestPath ==
    \A i \in 1..Len(requests) :
        LET c == calls[requests[i].call]
            base == client.url \o S_terms \o c.name
        IN /\ c.revision.t = "number" =>
                  requests[i].path = base \o S_revision \o NumberToString(c.revision.v)
           /\ IsNumericString(c.revision) =>
                  requests[i].path = base \o S_revision \o c.revision.v
           /\ c.revision \in {Null, Undefined} => requests[i].path = base
           /\ (baseUrl = S_host /\ c.name = S_canonical /\ c.revision = Num(0)) =>
                  requests[i].path = S_path \o S_revision \o <<"0">>
           /\ (baseUrl = S_host /\ c.name = S_canonical /\ c.revision = Num(42)) =>
                  requests[i].path = S_path \o S_revision \o <<"4", "2">>
           /\ (baseUrl = S_host /\ c.name = S_canonical /\ c.revision = Null) =>
                  requests[i].path = S_path

C2_Witness ==
    \E i, j \in 1..Len(requests) :
        /\ calls[requests[i].call].revision = Num(0)
        /\ requests[i].path = S_path \o S_revision \o <<"0">>
        /\ calls[requests[j].call].revision = Null
        /\ requests[j].path = S_path

EndsWithSlash(s) == Len(s) > 0 /\ s[Len(s)] = "/"
WithoutTrailingSlash(s) == IF EndsWithSlash(s) THEN SubSeq(s, 1, Len(s) - 1) ELSE s

\* C3: the constructed client's url is the base url without its trailing '/'
\* (one '/', when the base ends in one), then one '/', then 'v1'; a base that
\* does not end in '/' and the same base followed by '/' give the same url.
C3_UrlNormalized ==
    client # NoClient =>
        /\ client.url = WithoutTrailingSlash(baseUrl) \o S_slash \o termsAPIVersion
        /\ ~EndsWithSlash(baseUrl) =>
               client.url = terms(baseUrl \o S_slash, Bakery).url
        /\ (EndsWithSlash(baseUrl) /\ ~EndsWithSlash(WithoutTrailingSlash(baseUrl))) =>
               client.url = terms(WithoutTrailingSlash(baseUrl), Bakery).url
        /\ baseUrl \in {S_host, S_host \o S_slash} => client.url = S_url

C3_Witness ==
    /\ client # NoClient
    /\ baseUrl = S_host \o S_slash
    /\ client.url = S_url

\* C4: when the transport succeeds with a non-empty array, the callback is
\* invoked with (null, record): name, title, revision and content are those of
\* the first element, createdAt is the date parsed from its 'created-on', and
\* two responses with the same first element give the same record.
C4_RecordFromFirst ==
    \A id \in 1..MaxCalls :
        Found(id) =>
            LET first == delivered[id].body[1]
            IN /\ Len(callbacks[id]) = 1
               /\ callbacks[id][1].error = Null
               /\ callbacks[id][1].result = Obj(RecordOf(first))
               /\ first["created-on"] = S_created =>
                      callbacks[id][1].result.v.createdAt.time =
                          [t |-> "time", sec |-> 1465510044, ms |-> 0]
               /\ first["created-on"] = S_nodate =>
                      callbacks[id][1].result.v.createdAt.time = NaN
               /\ \A other \in 1..MaxCalls :
                      (Found(other) /\ delivered[other].body[1] = first) =>
                          callbacks[other][1].result = callbacks[id][1].result

C4_Witness ==
    \E i, j \in 1..MaxCalls :
        /\ Found(i) /\ delivered[i].body = <<Doc42, DocBad>>
        /\ callbacks[i] = <<Invocation(i, Null, Obj(RecordOf(Doc42)))>>
        /\ Found(j) /\ delivered[j].body = <<DocBad, Doc47>>
        /\ callbacks[j] = <<Invocation(j, Null, Obj(RecordOf(DocBad)))>>

\* C5: when the transport succeeds with an empty array the callback is
\* invoked with (null, null); a callback receives a record only when the
\* response array of its call was non-empty.
C5_EmptyIsNull ==
    \A id \in 1..MaxCalls :
        /\ NotFound(id) => callbacks[id] = <<Invocation(id, Null, Null)>>
        /\ \A k \in 1..Len(callbacks[id]) :
               callbacks[id][k].result # Null => Found(id)

C5_Witness ==
    \E id \in 1..MaxCalls :
        NotFound(id) /\ callbacks[id] = <<Invocation(id, Null, Null)>>

\* C6: when the transport fails with an error payload the callback is invoked
\* with (the payload's Message, null); no callback ever receives a non-null
\* error together with a non-null result.
C6_FailureMessage ==
    \A id \in 1..MaxCalls :
        /\ Failed(id) =>
               callbacks[id] = <<Invocation(id, Str(delivered[id].body.Message), Null)>>
        /\ \A k \in 1..Len(callbacks[id]) :
               callbacks[id][k].error # Null => callbacks[id][k].result = Null

C6_Witness ==
    \E id \in 1..MaxCalls :
        /\ Failed(id) /\ delivered[id].body.Message = S_badwolf
        /\ callbacks[id] = <<Invocation(id, Str(S_badwolf), Null)>>

\* C7: each showTerms call has handed exactly one request, a GET, to the
\* transport, at every moment from the call on: also after the transport
\* reported a failure (no retry).
C7_OneRequestPerCall ==
    /\ Len(requests) = Len(calls)
    /\ \A id \in 1..MaxCalls :
           /\ Cardinality(RequestsOf(id)) = IF id <= Len(calls) THEN 1 ELSE 0
           /\ \A i \in RequestsOf(id) : requests[i].method = "GET"
           /\ Completed(id) => \A req \in inflight : req.call # id

C7_Witness ==
    \E id \in 1..MaxCalls :
        Failed(id) /\ Cardinality(RequestsOf(id)) = 1 /\ Len(callbacks[id]) = 1

\* The path of a call's request, from the call's own name and revision.
ExpectedPath(c) ==
    client.url \o S_terms \o c.name \o
        (CASE c.revision.t = "number" -> S_revision \o NumberToString(c.revision.v)
           [] c.revision.t = "string" /\ Len(c.revision.v) > 0 -> S_revision \o c.revision.v
           [] OTHER -> <<>>)

\* C8: with several calls in flight and the transport completing them in any
\* order, each call's callback has received exactly the outcome of that call's
\* own request (and nothing while the request is pending), and each call's
\* request was built from that call's own name and revision.
C8_CallsIndependent ==
    \A id \in 1..MaxCalls :
        /\ callbacks[id] = IF Completed(id)
                           THEN <<ExpectedInvocation(id, delivered[id])>>
                           ELSE <<>>
        /\ \A i \in RequestsOf(id) : requests[i].path = ExpectedPath(calls[id])

C8_Witness ==
    \E i, j \in 1..MaxCalls :
        /\ i < j /\ j <= Len(calls)
        /\ calls[i] # calls[j]
        /\ ~Completed(i) /\ \E req \in inflight : req.call = i
        /\ Failed(j) /\ callbacks[j] = <<ExpectedInvocation(j, delivered[j])>>

\* C9: once constructed, the client never changes: no showTerms call and no
\* completion of a request, whatever its outcome, changes its url or bakery.
C9_ClientImmutable ==
    [][client # NoClient => client' = client]_vars

C9_Witness ==
    /\ client = terms(baseUrl, Bakery)
    /\ Len(calls) = MaxCalls
    /\ \E i, j \in 1..MaxCalls : Failed(i) /\ Found(j)

-----------------------------------------------------------------------------
(* The documentation linter *)

\* Python strings are sequences of one-character strings, like the
\* JavaScript ones; a source file is the sequence of its lines, each with its
\* newline, as readlines() returns it.  Line numbers count from 0.

Whitespace == {" ", "\t", "\n", "\r", "\f"}

WordChars ==
    {"a", "b", "c", "d", "e", "f", "g", "h", "i", "j", "k", "l", "m", "n",
     "o", "p", "q", "r", "s", "t", "u", "v", "w", "x", "y", "z",
     "A", "B", "C", "D", "E", "F", "G", "H", "I", "J", "K", "L", "M", "N",
     "O", "P", "Q", "R", "S", "T", "U", "V", "W", "X", "Y", "Z",
     "0", "1", "2", "3", "4", "5", "6", "7", "8", "9", "_"}

\* The first position from i on whose character is not in C (Len(s)+1 if none).
RECURSIVE SkipWhile(_, _, _)
SkipWhile(s, i, C) ==
    IF i <= Len(s) /\ s[i] \in C THEN SkipWhile(s, i + 1, C) ELSE i

\* The first position from i on whose character is in C (Len(s)+1 if none).
RECURSIVE SkipUntil(_, _, _)
SkipUntil(s, i, C) ==
    IF i <= Len(s) /\ s[i] \notin C THEN SkipUntil(s, i + 1, C) ELSE i

\* s has p at position i.
HasAt(s, i, p) ==
    /\ i >= 1
    /\ i + Len(p) - 1 <= Len(s)
    /\ \A k \in 1..Len(p) : s[i + k - 1] = p[k]

startswith(s, p) == HasAt(s, 1, p)
endswith(s, p) == HasAt(s, Len(s) - Len(p) + 1, p)
Contains(s, c) == \E k \in 1..Len(s) : s[k] = c

\* str.strip(): without the whitespace at both ends.
strip(s) ==
    LET from == SkipWhile(s, 1, Whitespace)
        to == IF from > Len(s) THEN Len(s)
              ELSE CHOOSE k \in from..Len(s) :
                       /\ s[k] \notin Whitespace
                       /\ \A j \in (k + 1)..Len(s) : s[j] \in Whitespace
    IN SubSeq(s, from, to)

P_function == <<"f", "u", "n", "c", "t", "i", "o", "n">>
P_docopen == <<"/", "*", "*">>
P_open == <<"/", "*">>
P_close == <<"*", "/">>
P_js == <<".", "j", "s">>
P_templates == <<"t", "e", "m", "p", "l", "a", "t", "e", "s", ".", "j", "s">>
P_assets == <<"a", "s", "s", "e", "t", "s">>
P_app == <<"a", "p", "p">>

\* function_regex.match(line): the function name (whichever group matched),
\* or the empty string when the line does not match
\*   ^ *(?:(\w+) *[:=] *function *|function +(\w+)) *\(
\* Every repetition is followed by a character it cannot take, so the greedy
\* choice is the only one that can match.
function_regex(line) ==
    LET a == SkipWhile(line, 1, {" "})
        \* (\w+) *[:=] *function *
        w1 == SkipWhile(line, a, WordChars)
        b1 == SkipWhile(line, w1, {" "})
        d1 == SkipWhile(line, b1 + 1, {" "})
        f1 == SkipWhile(line, d1 + Len(P_function), {" "})
        first == /\ w1 > a
                 /\ b1 <= Len(line) /\ line[b1] \in {":", "="}
                 /\ HasAt(line, d1, P_function)
                 /\ f1 <= Len(line) /\ line[f1] = "("
        \* function +(\w+)
        q == SkipWhile(line, a + Len(P_function), {" "})
        w2 == SkipWhile(line, q, WordChars)
        r == SkipWhile(line, w2, {" "})
        second == /\ HasAt(line, a, P_function)
                  /\ q > a + Len(P_function)
                  /\ w2 > q
                  /\ r <= Len(line) /\ line[r] = "("
    IN IF first THEN SubSeq(line, a, w1 - 1)
       ELSE IF second THEN SubSeq(line, q, w2 - 1)
       ELSE <<>>

\* find_functions(source): the (name, line_number) of every line that matches,
\* in the order of the lines.
RECURSIVE find_functions_from(_, _)
find_functions_from(source, line_number) ==
    IF line_number >= Len(source) THEN <<>>
    ELSE LET name == function_regex(source[line_number + 1])
         IN (IF name # <<>>
             THEN <<[name |-> name, line_number |-> line_number]>>
             ELSE <<>>)
            \o find_functions_from(source, line_number + 1)

find_functions(source) == find_functions_from(source, 0)

\* How a Python function ends: it returns a value or raises an exception.
Return(value) == [kind |-> "return", value |-> value]
Raise(exc) == [kind |-> "raise", exc |-> exc]

\* ending_line_number before its first assignment.
Unbound == -1

\* The loop of find_docs at current_line_number, with the values in_comment
\* and ending_line_number have on entering the iteration.
RECURSIVE find_docs_loop(_, _, _, _, _)
find_docs_loop(current_line_number, boundary, source, in_comment, ending_line_number) ==
    IF current_line_number <= boundary THEN Return(<<>>)
    ELSE LET source_line == strip(source[current_line_number + 1])
             closes == endswith(source_line, P_close)
             ending == IF closes THEN current_line_number ELSE ending_line_number
             inside == IF closes THEN TRUE ELSE in_comment
         IN IF startswith(source_line, P_docopen)
            THEN IF ending = Unbound THEN Raise("UnboundLocalError")
                 ELSE Return(SubSeq(source, current_line_number + 1, ending + 1))
            ELSE LET inside2 == IF startswith(source_line, P_open)
                                THEN FALSE ELSE inside
                 IN IF ~inside2 /\ (Contains(source_line, "{")
                                    \/ Contains(source_line, "}"))
                    THEN Return(<<>>)
                    ELSE find_docs_loop(current_line_number - 1, boundary,
                                        source, inside2, ending)

\* find_docs(line_number, boundary, source)
find_docs(line_number, boundary, source) ==
    find_docs_loop(line_number - 1, boundary, source, FALSE, Unbound)

\* code_location, '%s:%d "%s"' % (file_name, line_number+1, function_name),
\* held as the three values it is formatted from.
CodeLocation(file_name, line_number, function_name) ==
    [file |-> file_name, line |-> line_number + 1, name |-> function_name]

\* lint_comment(lines, code_location): the lint of one comment, in order.
lint_comment(lines, code_location) ==
    IF lines = <<>> THEN <<>>
    ELSE LET found(message) == <<[about |-> code_location, text |-> message]>>
             RECURSIVE trailing(_)
             trailing(k) ==
                 IF k > Len(lines) THEN <<>>
                 ELSE (IF Len(lines[k]) > 1
                          /\ lines[k][Len(lines[k]) - 1] \in Whitespace
                       THEN found("unnecessary whitespace at the end of the line")
                       ELSE <<>>)
                      \o trailing(k + 1)
         IN (IF strip(lines[1]) # P_docopen
             THEN found("extra characters after the opening comment; just use \"/**\"")
             ELSE <<>>)
            \o trailing(1)
            \o (IF strip(lines[Len(lines)]) # P_close
                THEN found("extra characters before the closing comment; just use \"*/\"")
                ELSE <<>>)

\* The loop of check_file over the functions found, from the k-th on, with
\* the values boundary and the five collections have on entering.
RECURSIVE check_file_loop(_, _, _, _, _, _, _)
check_file_loop(file_name, undocumented, source, functions, k, boundary, acc) ==
    IF k > Len(functions) THEN Return(acc)
    ELSE LET function_name == functions[k].name
             line_number == functions[k].line_number
             docs == find_docs(line_number, boundary, source)
             doc_lines == docs.value
             code_location == CodeLocation(file_name, line_number, function_name)
             is_undocumented == <<file_name, function_name>> \in undocumented
         IN IF docs.kind = "raise" THEN docs
            ELSE check_file_loop(
                     file_name, undocumented, source, functions, k + 1, line_number,
                     [file_functions |->
                          acc.file_functions \cup {<<file_name, function_name>>},
                      missing_doc_functions |->
                          IF doc_lines = <<>> /\ ~is_undocumented
                          THEN acc.missing_doc_functions \cup {code_location}
                          ELSE acc.missing_doc_functions,
                      falsely_undoc_functions |->
                          IF doc_lines # <<>> /\ is_undocumented
                          THEN acc.falsely_undoc_functions \cup {code_location}
                          ELSE acc.falsely_undoc_functions,
                      file_num_doc_lines |->
                          acc.file_num_doc_lines + Len(doc_lines),
                      other_lint |->
                          acc.other_lint \o lint_comment(doc_lines, code_location)])

\* check_file(file_name, undocumented), source being the lines of the file.
check_file(file_name, undocumented, source) ==
    check_file_loop(file_name, undocumented, source, find_functions(source), 1, 0,
                    [file_functions |-> {},
                     missing_doc_functions |-> {},
                     falsely_undoc_functions |-> {},
                     file_num_doc_lines |-> 0,
                     other_lint |-> <<>>])

\* new_style_regex.match(line), ([^:]+):\d+ "([^"]+)": the two groups, or
\* <<>> when the line does not match.
new_style_regex(line) ==
    LET c == SkipUntil(line, 1, {":"})
        d == SkipWhile(line, c + 1, {"0", "1", "2", "3", "4", "5", "6", "7", "8", "9"})
        e == SkipUntil(line, d + 2, {"\""})
    IN IF /\ c > 1 /\ c <= Len(line)
          /\ d > c + 1
          /\ HasAt(line, d, <<" ", "\"">>)
          /\ e > d + 2 /\ e <= Len(line)
       THEN <<SubSeq(line, 1, c - 1), SubSeq(line, d + 2, e - 1)>>
       ELSE <<>>

\* read_undocumented_listing(lines)
read_undocumented_listing(lines) ==
    LET old_style == Len(lines) # 0 /\ ~Contains(lines[1], ":")
    IN IF old_style THEN Raise("RuntimeError")
       ELSE IF \E k \in 1..Len(lines) : new_style_regex(lines[k]) = <<>>
       THEN Raise("AttributeError")
       ELSE Return({new_style_regex(lines[k]) : k \in 1..Len(lines)})

-----------------------------------------------------------------------------
(* The files the linter reads *)

L_code == <<"v", "a", "r", " ", "x", " ", "=", " ", "1", ";", "\n">>
L_docopen == <<"/", "*", "*", "\n">>
L_text == <<" ", " ", "D", "o", "e", "s", " ", "i", "t", ".", "\n">>
L_close == <<"*", "/", "\n">>
L_foo == <<"f", "o", "o", " ", "=", " ", "f", "u", "n", "c", "t", "i", "o", "n",
      "(", ")", " ", "{", "\n">>
L_bar == <<" ", " ", "b", "a", "r", ":", " ", "f", "u", "n", "c", "t", "i", "o",
      "n", " ", "(", "a", ")", " ", "{", "\n">>
L_baz == <<"f", "u", "n", "c", "t", "i", "o", "n", " ", "b", "a", "z", "(", ")",
      " ", "{", "\n">>
L_end == <<"}", "\n">>
L_plain == <<"/", "*", " ", "n", "o", "t", "e", " ", "*", "/", "\n">>
L_opentext == <<"/", "*", "*", " ", "D", "o", "e", "s", " ", "i", "t", ".", "\n">>
L_oneline == <<"/", "*", "*", " ", "D", "o", "e", "s", " ", "i", "t", ".", " ", "*",
      "/", "\n">>
L_closews == <<"*", "/", " ", "\n">>

\* A documented function.
SrcDocumented == <<L_code, L_docopen, L_text, L_close, L_foo, L_end>>
\* A function without documentation.
SrcUndocumented == <<L_code, L_foo, L_end>>
\* A documented function followed by an undocumented and a documented one.
SrcThree == <<L_code, L_docopen, L_text, L_close, L_foo, L_end,
              L_bar, L_end, L_oneline, L_baz, L_end>>
\* A documentation block that starts on the first line of the file.
SrcDocAtTop == <<L_docopen, L_text, L_close, L_baz, L_end>>
\* A documentation block that is not closed before the function.
SrcUnclosed == <<L_code, L_opentext, L_text, L_foo, L_end>>
\* A documentation block with text on its opening line and a blank after
\* its closing.
SrcLint == <<L_code, L_opentext, L_text, L_closews, L_foo, L_end>>
\* A block closed between the documentation and the function.
SrcBraceBetween == <<L_code, L_docopen, L_text, L_close, L_end, L_foo, L_end>>
\* A plain comment before the function.
SrcPlain == <<L_code, L_plain, L_bar, L_end>>

Sources == {SrcDocumented, SrcUndocumented, SrcThree, SrcDocAtTop, SrcUnclosed,
            SrcLint, SrcBraceBetween, SrcPlain}

F_a == <<"a", ".", "j", "s">>
F_b == <<"b", ".", "j", "s">>
F_c == <<"c", ".", "j", "s">>
F_readme == <<"R", "E", "A", "D", "M", "E">>
F_views == <<"v", "i", "e", "w", "s">>

\* os.path.join(root, name)
join(root, name) == root \o <<"/">> \o name

\* The directories under 'app': for each, its sub-directories and its files.
Tree ==
    (P_app :> [dirs |-> {P_assets, F_views}, files |-> {F_a, P_templates, F_readme}])
    @@ (join(P_app, F_views) :> [dirs |-> {}, files |-> {F_b}])
    @@ (join(P_app, P_assets) :> [dirs |-> {}, files |-> {F_c}])

\* The files of the walk that are checked.
Checked == {join(P_app, F_a), join(join(P_app, F_views), F_b)}
\* The files the walk passes over.
Ignored == {join(P_app, P_templates), join(P_app, F_readme),
            join(join(P_app, P_assets), F_c)}

U_foo_a == <<"a", "p", "p", "/", "a", ".", "j", "s", ":", "5", " ", "\"", "f", "o",
      "o", "\"", "\n">>
U_baz_b == <<"a", "p", "p", "/", "v", "i", "e", "w", "s", "/", "b", ".", "j", "s",
      ":", "4", " ", "\"", "b", "a", "z", "\"", "\n">>
U_gone == <<"a", "p", "p", "/", "a", ".", "j", "s", ":", "9", " ", "\"", "g", "o",
      "n", "e", "\"", "\n">>
U_old == <<"f", "o", "o", "\n">>
U_broken == <<"a", "p", "p", "/", "a", ".", "j", "s", ":", " ", "f", "o", "o", "\n">>

\* The contents of the file named "undocumented".
Listings == {<<>>, <<U_foo_a>>, <<U_foo_a, U_baz_b>>, <<U_baz_b, U_gone>>,
             <<U_old>>, <<U_foo_a, U_broken>>}

Commands == {<<"lint-yuidoc">>, <<"lint-yuidoc", "--generate-undocumented">>}

-----------------------------------------------------------------------------
(* main *)

\* The files os.walk(root) leads main to: the 'assets' directories are
\* pruned, and of the files those that end in '.js' and are not
\* 'templates.js' are kept.
RECURSIVE walk(_)
walk(root) ==
    LET dirs == Tree[root].dirs \ {P_assets}
        files == {f \in Tree[root].files : endswith(f, P_js) /\ f # P_templates}
    IN {join(root, name) : name \in files}
       \cup UNION {walk(join(root, sub)) : sub \in dirs}

RECURSIVE SeqToBag(_)
SeqToBag(s) ==
    IF s = <<>> THEN EmptyBag ELSE SetToBag({Head(s)}) (+) SeqToBag(Tail(s))

in_generate_undocumented_file_mode == \E k \in 1..Len(argv) : argv[k] = "--generate-undocumented"

LintInit ==
    /\ argv \in Commands
    /\ \E listing \in Listings, sa, sb \in Sources :
           fs = [undocumented |-> listing,
                 sources |-> [f \in Checked \cup Ignored |->
                                 IF f = join(P_app, F_a) THEN sa
                                 ELSE IF f \in Checked THEN sb
                                 ELSE SrcUndocumented]]
    /\ lpc = "start"
    /\ main_undocumented = {}
    /\ pending = {}
    /\ all_functions = {}
    /\ total_num_doc_lines = 0
    /\ found_errors = FALSE
    /\ falsely_undoc = {}
    /\ stdout = EmptyBag
    /\ main_status = <<>>

\* main, up to the walk: the mode, and the undocumented listing.
MainStart ==
    /\ lpc = "start"
    /\ LET listing == IF in_generate_undocumented_file_mode THEN Return({})
                      ELSE read_undocumented_listing(fs.undocumented)
       IN IF listing.kind = "raise"
          THEN /\ lpc' = "raised"
               /\ main_status' = listing
               /\ UNCHANGED <<main_undocumented, pending>>
          ELSE /\ lpc' = "walk"
               /\ main_undocumented' = listing.value
               /\ pending' = walk(P_app)
               /\ UNCHANGED main_status
    /\ UNCHANGED <<argv, fs, all_functions, total_num_doc_lines, found_errors,
                   falsely_undoc, stdout>>
    /\ UNCHANGED termsVars
    /\ UNCHANGED scanVars

\* One turn of main's loop over the files: check_file and the reports on it.
MainCheckFile(file_name) ==
    /\ lpc = "walk"
    /\ file_name \in pending
    /\ LET checked == check_file(file_name, main_undocumented, fs.sources[file_name])
           r == checked.value
           missing_lines ==
               IF in_generate_undocumented_file_mode
               THEN {[about |-> loc, text |-> ""] : loc \in r.missing_doc_functions}
               ELSE {[about |-> loc, text |-> "undocumented but not listed as such"] :
                        loc \in r.missing_doc_functions}
           falsely_lines ==
               IF in_generate_undocumented_file_mode
               THEN {[about |-> loc, text |-> "erroneously listed as undocumented"] :
                        loc \in r.falsely_undoc_functions}
               ELSE {}
           lint_lines ==
               IF in_generate_undocumented_file_mode THEN <<>> ELSE r.other_lint
       IN IF checked.kind = "raise"
          THEN /\ lpc' = "raised"
               /\ main_status' = checked
               /\ UNCHANGED <<pending, all_functions, total_num_doc_lines,
                              found_errors, falsely_undoc, stdout>>
          ELSE /\ pending' = pending \ {file_name}
               /\ all_functions' = all_functions \cup r.file_functions
               /\ found_errors' =
                      \/ found_errors
                      \/ (~in_generate_undocumented_file_mode
                          /\ r.missing_doc_functions # {})
                      \/ (in_generate_undocumented_file_mode
                          /\ r.falsely_undoc_functions # {})
                      \/ (~in_generate_undocumented_file_mode
                          /\ r.other_lint # <<>>)
               /\ stdout' = stdout (+) SetToBag(missing_lines)
                                   (+) SetToBag(falsely_lines)
                                   (+) SeqToBag(lint_lines)
               /\ total_num_doc_lines' = total_num_doc_lines + r.file_num_doc_lines
               /\ falsely_undoc' = falsely_undoc \cup r.falsely_undoc_functions
               /\ UNCHANGED <<lpc, main_status>>
    /\ UNCHANGED <<argv, fs, main_undocumented>>
    /\ UNCHANGED termsVars
    /\ UNCHANGED scanVars

\* main, after the walk: the totals, the listed functions that do not exist,
\* and the return value.
MainFinish ==
    /\ lpc = "walk"
    /\ pending = {}
    /\ lpc' = "returned"
    /\ IF in_generate_undocumented_file_mode
       THEN /\ main_status' = Return(0)
            /\ UNCHANGED <<found_errors, stdout>>
       ELSE LET missing == main_undocumented \ all_functions
            IN /\ found_errors' = (found_errors \/ missing # {})
               /\ stdout' = stdout
                      (+) SetToBag({[about |-> [count |-> total_num_doc_lines],
                                     text |-> "Total documentation lines"]})
                      (+) SetToBag({[about |-> [file |-> x[1], name |-> x[2]], text |->
                                        "listed as undocumented but does not exist"] :
                                    x \in missing})
                      (+) SetToBag({[about |-> [count |-> Cardinality(main_undocumented)],
                                     text |-> "Backlog of undocumented functions"]})
               /\ main_status' = Return(IF found_errors' THEN 1 ELSE 0)
    /\ UNCHANGED <<argv, fs, main_undocumented, pending, all_functions,
                   total_num_doc_lines, falsely_undoc>>
    /\ UNCHANGED termsVars
    /\ UNCHANGED scanVars

LintNext ==
    \/ MainStart
    \/ \E file_name \in pending : MainCheckFile(file_name)
    \/ MainFinish

\* The linter runs; the terms client is not in use.
InitLint == LintInit /\ TermsInit /\ ScanIdle

LintSpec == InitLint /\ [][LintNext]_vars

-----------------------------------------------------------------------------
(* check_file's loop over the functions of a file, one find_docs call at a *)
(* time, over every small source                                           *)

\* The longest source scanned.
MaxLines == 4

\* The kinds of line a scanned source is made of.
ScanLines == {L_code, L_docopen, L_opentext, L_oneline, L_close, L_plain,
              L_baz, L_end}

RECURSIVE SourcesOfLength(_)
SourcesOfLength(n) ==
    IF n = 0 THEN {<<>>}
    ELSE {Append(source, line) : source \in SourcesOfLength(n - 1), line \in ScanLines}

\* What readlines() can return: every source of 1 to MaxLines lines.
ScanSources == UNION {SourcesOfLength(n) : n \in 1..MaxLines}

\* source = f.readlines(); boundary = 0
ScanInit ==
    \E source \in ScanSources :
        scan = [source |-> source, k |-> 0, boundary |-> 0, doc_lines |-> <<>>,
                pc |-> "loop"]

\* One turn of the loop: doc_lines = find_docs(line_number, boundary, source),
\* then boundary = line_number.  scan.doc_lines keeps how each call ended; an
\* exception of find_docs leaves the loop.
ScanFunction ==
    /\ scan.pc = "loop"
    /\ scan.k < Len(find_functions(scan.source))
    /\ LET line_number == find_functions(scan.source)[scan.k + 1].line_number
           outcome == find_docs(line_number, scan.boundary, scan.source)
       IN scan' = [scan EXCEPT !.k = @ + 1,
                               !.boundary = IF outcome.kind = "return"
                                            THEN line_number ELSE @,
                               !.doc_lines = Append(@, outcome),
                               !.pc = IF outcome.kind = "return"
                                      THEN "loop" ELSE "raised"]
    /\ UNCHANGED termsVars
    /\ UNCHANGED lintVars

\* find_functions is exhausted: the loop ends.
ScanEnd ==
    /\ scan.pc = "loop"
    /\ scan.k = Len(find_functions(scan.source))
    /\ scan' = [scan EXCEPT !.pc = "done"]
    /\ UNCHANGED termsVars
    /\ UNCHANGED lintVars

ScanNext ==
    \/ ScanFunction
    \/ ScanEnd

\* One file is scanned; neither main nor the terms client runs.
InitScan == ScanInit /\ TermsInit /\ LintIdle

ScanSpec == InitScan /\ [][ScanNext]_vars

-----------------------------------------------------------------------------
(* Properties of the linter *)

\* C10: in the normal mode (without --generate-undocumented), when main has
\* returned and check_file found a function that has documentation and is
\* listed in the "undocumented" file, main has printed that the function is
\* erroneously listed as undocumented and has returned a non-zero status.
C10_ComplainsWhenStillListed ==
    (lpc = "returned" /\ ~in_generate_undocumented_file_mode) =>
        \A code_location \in falsely_undoc :
            /\ BagIn([about |-> code_location,
                      text |-> "erroneously listed as undocumented"], stdout)
            /\ main_status.value # 0

\* What the lines of a source say, by number (from 0).
OpensDoc(source, n) == startswith(strip(source[n + 1]), P_docopen)
OpensComment(source, n) == startswith(strip(source[n + 1]), P_open)
ClosesComment(source, n) == endswith(strip(source[n + 1]), P_close)
HasBrace(source, n) == Contains(source[n + 1], "{") \/ Contains(source[n + 1], "}")

\* Line n lies in a comment that opens and closes within lines from..to.
InComment(source, n, from, to) ==
    \E a \in from..n, b \in n..to :
        /\ OpensComment(source, a)
        /\ ClosesComment(source, b)
        /\ \A c \in a..(b - 1) : ~ClosesComment(source, c)

\* The lines searched for the function on line line_number: back to the line
\* after the previous function's, or to the start of the file.
SearchedLines(functions, i) ==
    (IF i = 1 THEN 0 ELSE functions[i - 1].line_number + 1)
        .. (functions[i].line_number - 1)

\* The documentation of the i-th function of source: the nearest preceding
\* "/**" line through its "*/" line, when no brace outside a comment lies
\* between that block and the function; nothing otherwise.
Documentation(source, i) ==
    LET functions == find_functions(source)
        line_number == functions[i].line_number
        opens == {n \in SearchedLines(functions, i) : OpensDoc(source, n)}
    IN IF opens = {} THEN <<>>
       ELSE LET first == CHOOSE n \in opens : \A m \in opens : m <= n
                closes == {n \in first..(line_number - 1) : ClosesComment(source, n)}
            IN IF closes = {} THEN <<>>
               ELSE LET last == CHOOSE n \in closes : \A m \in closes : n <= m
                    IN IF \E n \in (last + 1)..(line_number - 1) :
                              /\ HasBrace(source, n)
                              /\ ~InComment(source, n, last + 1, line_number - 1)
                       THEN <<>>
                       ELSE SubSeq(source, first + 1, last + 1)

\* C11: for every function found in a file, the first one included, find_docs
\* returns normally, and returns exactly the lines of the nearest "/** ... */"
\* block that precedes the function (searching back to the previous function's
\* line or to the start of the file) when no brace outside a comment lies
\* between the block and the function, and an empty sequence otherwise.
C11_FindDocsReturnsBlock ==
    \A i \in 1..Len(scan.doc_lines) :
        /\ scan.doc_lines[i].kind = "return"
        /\ scan.doc_lines[i].value = Documentation(scan.source, i)

=============================================================================
